---- MODULE Spec2Model ----
(***************************************************************************)
(* A model of tofu345/http_library: the worker pool of src/threads.rs and  *)
(* the routing, handler selection and response encoding of src/lib.rs.     *)
(***************************************************************************)
EXTENDS Naturals, Sequences, FiniteSets

(* ------------------------------ bounds -------------------------------- *)

\* The largest size handed to ThreadPool::build.
MaxWorkers == 2

\* The number of jobs (accepted connections) handed to execute.
MaxJobs == 3

\* The number of routes registered with handle_func.
MaxRoutes == 2

\* The longest route pattern, and the longest request path, in characters.
MaxPatLen == 3

MaxPathLen == 2

\* The longest response body, in characters.
MaxBodyLen == 2

\* The number of lines of a request buffer after its request line.
MaxLines == 3

(* ------------------------- the pool's state --------------------------- *)

VARIABLES
    main,         \* where the thread that owns the pool is
    size,         \* the argument build was called with
    buildResult,  \* "none" | "Ok" | "ZeroThreadsError"
    workers,      \* ThreadPool.workers: Vec<Worker>, [id, thread]
    sender,       \* ThreadPool.sender: Option<Sender<Job>>, "Some" | "None"
    receiver,     \* strong count of the Arc<Mutex<Receiver<Job>>>; 0: dropped
    queue,        \* the channel's buffer: jobs sent and not yet received
    lock,         \* the Mutex: 0 when free, else the index of the holder
    threads,      \* the spawned worker threads: [pc, job]
    joinIdx,      \* the position of drop's loop over workers
    nsub,         \* how many execute calls have returned
    dequeued,     \* history: the jobs in the order recv handed them out
    runs,         \* history: per job, how many times it was started
    finished,     \* history: the jobs in the order they ran to completion
    lost,         \* history: the jobs discarded with the receiver
    frames,       \* per worker thread: the locals of the handle_connection it runs
    streams,      \* per job: the connection its closure owns
    routes,       \* Router.routes: Vec<Route>, in registration order
    serving,      \* whether serve has been called (the routes are then fixed)
    req,          \* the decoded request of the connection at hand
    verdicts,     \* history: what match_route's closure said of each route it saw
    matched,      \* what Route::match_route gave for req.path
    handler,      \* the handler handle_connection selected
    res,          \* the Response a handler built
    output,       \* the bytes handle_connection wrote to the stream
    buffer,       \* a byte buffer read from a connection: buf[0..n]
    decoded       \* history: the results of the Request::from_utf8 calls on it

connVars == <<frames, streams>>

poolVars == <<main, size, buildResult, workers, sender, receiver, queue, lock,
              threads, joinIdx, nsub, dequeued, runs, finished, lost, connVars>>

routeVars == <<routes, serving, req, verdicts, matched, handler>>

decodeVars == <<buffer, decoded>>

httpVars == <<routeVars, res, output, decodeVars>>

vars == <<poolVars, httpVars>>

Jobs == 1..MaxJobs

NoJob == 0

(* ----------------------------- strings ------------------------------- *)

\* A String is the sequence of its characters.

\* str::starts_with
StartsWith(s, prefix) ==
    /\ Len(prefix) <= Len(s)
    /\ SubSeq(s, 1, Len(prefix)) = prefix

\* str::ends_with
EndsWith(s, suffix) ==
    /\ Len(suffix) <= Len(s)
    /\ SubSeq(s, Len(s) - Len(suffix) + 1, Len(s)) = suffix

\* str::contains
Contains(s, pat) ==
    \E i \in 1..(Len(s) + 1) :
        /\ i + Len(pat) - 1 <= Len(s)
        /\ SubSeq(s, i, i + Len(pat) - 1) = pat

None == [tag |-> "None"]

Some(v) == [tag |-> "Some", value |-> v]

\* str::strip_suffix
StripSuffix(s, suffix) ==
    IF EndsWith(s, suffix)
    THEN Some(SubSeq(s, 1, Len(s) - Len(suffix)))
    ELSE None

RECURSIVE Concat(_)
\* the concatenation of a sequence of strings
Concat(parts) ==
    IF parts = <<>> THEN <<>> ELSE Head(parts) \o Concat(Tail(parts))

Digit(d) == <<"0", "1", "2", "3", "4", "5", "6", "7", "8", "9">>[d + 1]

RECURSIVE Decimal(_)
\* the Display of an unsigned integer (u16, usize): its decimal digits
Decimal(n) ==
    IF n < 10 THEN <<Digit(n)>> ELSE Decimal(n \div 10) \o <<Digit(n % 10)>>

CRLF == <<"\r", "\n">>

\* the sequences over alphabet of length at most n
StringsUpTo(alphabet, n) == UNION {[1..k -> alphabet] : k \in 0..n}

(* ------------------ src/lib.rs: routes and resolution ------------------ *)

\* the wildcard token of route patterns
Wildcard == <<":", "?">>

PatternChars == {"a", ":", "?"}

Patterns == StringsUpTo(PatternChars, MaxPatLen)

Paths == StringsUpTo(PatternChars, MaxPathLen)

Methods == {"GET", "POST"}

\* the handlers the application registers, one per handle_func call
UserHandlers == {"handler_1", "handler_2"}

RouteMatchesByPrefixOnly(r, path) ==
    IF Contains(r.path, Wildcard)
    THEN LET prefix == StripSuffix(r.path, Wildcard)
         IN  IF prefix = None THEN "panic"
             ELSE IF StartsWith(path, prefix.value) THEN "true" ELSE "false"
    ELSE IF StartsWith(path, r.path) THEN "true" ELSE "false"

\* the closure match_route hands to find: whether route r matches path; the
\* expect panics when the pattern holds the token but does not end with it.
RouteMatches(r, path) ==
    IF Contains(r.path, Wildcard)
    THEN LET prefix == StripSuffix(r.path, Wildcard)
         IN  IF prefix = None THEN "panic"
             ELSE IF StartsWith(path, prefix.value) THEN "true" ELSE "false"
    ELSE IF r.path = path THEN "true" ELSE "false"

RECURSIVE Scan(_, _, _)
\* Iterator::find over routes.iter(), from position i: the closure's verdicts
\* on the routes it is called on; find stops at the first route the closure
\* accepts, and the walk ends where the closure panics.
Scan(rs, path, i) ==
    IF i > Len(rs) THEN <<>>
    ELSE LET v == RouteMatches(rs[i], path)
         IN  IF v = "false" THEN <<v>> \o Scan(rs, path, i + 1) ELSE <<v>>

\* what find returns after the walk; Some(i) stands for the reference to
\* routes[i]
Found(seen) ==
    IF seen = <<>> THEN None
    ELSE IF seen[Len(seen)] = "true" THEN Some(Len(seen))
    ELSE IF seen[Len(seen)] = "panic" THEN [tag |-> "Panic"]
    ELSE None

\* Route::match_route
MatchRoute(rs, path) == Found(Scan(rs, path, 1))

(* ------------------------ src/lib.rs: Response ------------------------- *)

\* HashMap::new and HashMap::insert: a map is a function on its key set
EmptyMap == [k \in {} |-> <<>>]

Insert(map, key, val) ==
    [k \in DOMAIN map \cup {key} |-> IF k = key THEN val ELSE map[k]]

ContentType == <<"C", "o", "n", "t", "e", "n", "t", "-", "T", "y", "p", "e">>

ContentLength == <<"C", "o", "n", "t", "e", "n", "t", "-", "L", "e", "n", "g", "t", "h">>

TextPlain == <<"t", "e", "x", "t", "/", "p", "l", "a", "i", "n">>

\* Response::new: the body with its derived Content-Type and Content-Length
ResponseNew(code, data) ==
    [code |-> code,
     data |-> Some(data),
     headers |-> Insert(Insert(EmptyMap, ContentType, TextPlain),
                        ContentLength, Decimal(Len(data)))]

\* Response::empty
ResponseEmpty(code) == [code |-> code, data |-> None, headers |-> EmptyMap]

\* one entry of Display for Json: format!("\"{}\": \"{}\"", k, v)
JsonEntry(k, v) == <<"\"">> \o k \o <<"\"", ":", " ", "\"">> \o v \o <<"\"">>

RECURSIVE JsonEntries(_, _, _)
\* the loop of Display for Json over self.0.iter().enumerate(), from entry i:
\* each entry, and a comma after every entry but the last
JsonEntries(map, order, i) ==
    IF i > Len(order) THEN <<>>
    ELSE JsonEntry(order[i], map[order[i]])
            \o (IF i # Len(order) THEN <<",">> ELSE <<>>)
            \o JsonEntries(map, order, i + 1)

\* Display for Json, the map iterated in the given order
JsonText(map, order) == <<"{">> \o JsonEntries(map, order, 1) \o <<"}">>

\* Response::json
ResponseJson(code, map, order) ==
    [code |-> code,
     data |-> Some(JsonText(map, order)),
     headers |-> Insert(EmptyMap, ContentType, <<"a", "p", "p", "l", "i", "c", "a", "t", "i", "o", "n", "/", "j", "s", "o", "n">>)]

\* Response::file, the file read: its contents are the body
ResponseFile(code, contents) ==
    [code |-> code,
     data |-> Some(contents),
     headers |-> Insert(EmptyMap, ContentType, <<"t", "e", "x", "t", "/", "h", "t", "m", "l">>)]

\* Response::add_header and Response::add_headers
ResponseAddHeader(r, key, val) ==
    [r EXCEPT !.headers = Insert(r.headers, key, val)]

\* the orders in which HashMap::iter may yield the keys of map
IterOrders(map) ==
    LET n == Cardinality(DOMAIN map)
    IN  {o \in [1..n -> DOMAIN map] : \A i, j \in 1..n : i # j => o[i] # o[j]}

\* the header block of to_string: push_str(format!("{key}: {val}\r\n")) per entry
HeaderLines(map, order) ==
    Concat([i \in 1..Len(order) |->
              order[i] \o <<":", " ">> \o map[order[i]] \o CRLF])

BlankLineAlways(map) == CRLF

\* the blank line of to_string: if self.headers.len() != 0 { push_str("\r\n") }
BlankLine(map) == IF Cardinality(DOMAIN map) # 0 THEN CRLF ELSE <<>>

\* Response::to_string, the map iterated in the given order
ToString(r, order) ==
    HeaderLines(r.headers, order)
        \o BlankLine(r.headers)
        \o (IF r.data.tag = "Some" THEN r.data.value ELSE <<>>)
        \o CRLF

\* the reason of the status line: if res.code == 200 { "OK" } else { " " }
Reason(code) == IF code = 200 THEN <<"O", "K">> ELSE <<" ">>

\* handle_connection: format!("HTTP/1.1 {} {}\r\n{}", res.code, reason, res.to_string())
FormatOutput(r, order) ==
    <<"H", "T", "T", "P", "/", "1", ".", "1", " ">> \o Decimal(r.code) \o <<" ">> \o Reason(r.code) \o CRLF
        \o ToString(r, order)

(* ------------------ src/lib.rs: handler selection ---------------------- *)

UserHandler(k) == [kind |-> "user", n |-> k]

MethodNotAllowed == [kind |-> "method_not_allowed_handler", n |-> 0]

NotFound == [kind |-> "not_found_handler", n |-> 0]

NoHandler == [kind |-> "none", n |-> 0]

\* fn method_not_allowed_handler
MethodNotAllowedHandler == ResponseNew(405, <<"m", "e", "t", "h", "o", "d", " ", "n", "o", "t", " ", "a", "l", "l", "o", "w", "e", "d">>)

\* fn not_found_handler
NotFoundHandler == ResponseNew(404, <<"p", "a", "g", "e", " ", "n", "o", "t", " ", "f", "o", "u", "n", "d">>)

\* what the application's handlers return: any Response; two stand for them
UserResponses == {ResponseNew(200, <<"h", "i">>), ResponseEmpty(201)}

\* handle_connection: the match on Route::match_route's result and the check
\* route.methods.contains(&req.method)
SelectHandler(rs, m, method) ==
    IF m.tag = "Some"
    THEN IF method \in rs[m.value].methods
         THEN rs[m.value].handler
         ELSE MethodNotAllowed
    ELSE NotFound

\* what handler(&req) may return
HandlerResults(h) ==
    IF h = MethodNotAllowed THEN {MethodNotAllowedHandler}
    ELSE IF h = NotFound THEN {NotFoundHandler}
    ELSE UserResponses

\* Router::handle_func: the route goes to the back of routes
HandleFunc(path, h, methods) ==
    /\ ~serving
    /\ Len(routes) < MaxRoutes
    /\ routes' = Append(routes, [path |-> path, methods |-> methods, handler |-> h])
    /\ UNCHANGED <<serving, req, verdicts, matched, handler, res, output>>
    /\ UNCHANGED decodeVars
    /\ UNCHANGED poolVars

\* Router::serve: from here on the routes are shared read-only
Serve ==
    /\ ~serving
    /\ serving' = TRUE
    /\ UNCHANGED <<routes, req, verdicts, matched, handler, res, output>>
    /\ UNCHANGED decodeVars
    /\ UNCHANGED poolVars

\* handle_connection from the decoded request to the handler's return: the
\* route lookup (whose expect may panic), the method check, handler(&req)
Dispatch(request) ==
    /\ serving
    /\ req = None
    /\ req' = Some(request)
    /\ verdicts' = Scan(routes, request.path, 1)
    /\ matched' = MatchRoute(routes, request.path)
    /\ IF matched'.tag = "Panic"
       THEN /\ handler' = NoHandler
            /\ res' = None
       ELSE /\ handler' = SelectHandler(routes, matched', request.method)
            /\ \E r \in HandlerResults(handler') : res' = Some(r)
    /\ UNCHANGED <<routes, serving, output>>
    /\ UNCHANGED decodeVars
    /\ UNCHANGED poolVars

\* the job ends (by returning or by unwinding): the stream, the request and
\* the response are dropped; the routes stay
Close ==
    /\ req # None
    /\ req' = None
    /\ verdicts' = <<>>
    /\ matched' = None
    /\ handler' = NoHandler
    /\ res' = None
    /\ UNCHANGED <<routes, serving, output>>
    /\ UNCHANGED decodeVars
    /\ UNCHANGED poolVars

Requests == [method : Methods, path : Paths]

(* --------------- src/lib.rs: building and writing a response ----------- *)

StatusCodes == {200, 404}

Bodies == StringsUpTo({"h", "i"}, MaxBodyLen)

HeaderKeys == {ContentType, ContentLength, <<"X">>}

HeaderValues == {<<"a">>, <<"b">>}

\* a handler calls Response::new
New(code, data) ==
    /\ res = None
    /\ res' = Some(ResponseNew(code, data))
    /\ UNCHANGED <<routeVars, output>>
    /\ UNCHANGED decodeVars
    /\ UNCHANGED poolVars

\* a handler calls Response::empty
Empty(code) ==
    /\ res = None
    /\ res' = Some(ResponseEmpty(code))
    /\ UNCHANGED <<routeVars, output>>
    /\ UNCHANGED decodeVars
    /\ UNCHANGED poolVars

\* the maps handed to Response::json
JsonMaps == UNION {[ks -> {<<"v">>}] : ks \in SUBSET {<<"k">>, <<"l">>}}

\* a handler calls Response::json
Json(code, map) ==
    /\ res = None
    /\ \E order \in IterOrders(map) : res' = Some(ResponseJson(code, map, order))
    /\ UNCHANGED <<routeVars, output>>
    /\ UNCHANGED decodeVars
    /\ UNCHANGED poolVars

\* a handler calls Response::file on a file that can be read
File(code, contents) ==
    /\ res = None
    /\ res' = Some(ResponseFile(code, contents))
    /\ UNCHANGED <<routeVars, output>>
    /\ UNCHANGED decodeVars
    /\ UNCHANGED poolVars

\* a handler calls add_header or add_headers on the response it is building
AddHeader(key, val) ==
    /\ res # None
    /\ output = None
    /\ res' = Some(ResponseAddHeader(res.value, key, val))
    /\ UNCHANGED <<routeVars, output>>
    /\ UNCHANGED decodeVars
    /\ UNCHANGED poolVars

\* handle_connection: the output is formatted and written to the stream
WriteResponse ==
    /\ res # None
    /\ output = None
    /\ \E order \in IterOrders(res.value.headers) :
          output' = Some(FormatOutput(res.value, order))
    /\ UNCHANGED <<routeVars, res>>
    /\ UNCHANGED decodeVars
    /\ UNCHANGED poolVars

(* ------------------ src/lib.rs: decoding a request --------------------- *)

\* A byte is a character; "NUL" is the byte 0 and "0xFF" a byte that occurs in
\* no valid UTF-8 text.

Ok(v) == [tag |-> "Ok", value |-> v]

Err(e) == [tag |-> "Err", error |-> e]

\* String::from_utf8(data.to_vec()): whether the bytes are valid UTF-8
ValidUtf8(data) == \A i \in 1..Len(data) : data[i] # "0xFF"

\* data.replace("\0", "")
RemoveNul(data) == SelectSeq(data, LAMBDA c : c # "NUL")

\* str::find: the position of the first occurrence of pat in s, 0 for none
Find(s, pat) ==
    IF Contains(s, pat)
    THEN CHOOSE i \in 1..(Len(s) + 1) :
            /\ i + Len(pat) - 1 <= Len(s)
            /\ SubSeq(s, i, i + Len(pat) - 1) = pat
            /\ \A k \in 1..(i - 1) : SubSeq(s, k, k + Len(pat) - 1) # pat
    ELSE 0

RECURSIVE Split(_, _)
\* str::split(pat), collected: the pieces between the occurrences of pat; a
\* string without pat (the empty string too) gives one piece
Split(s, pat) ==
    LET i == Find(s, pat)
    IN  IF i = 0 THEN <<s>>
        ELSE <<SubSeq(s, 1, i - 1)>> \o Split(SubSeq(s, i + Len(pat), Len(s)), pat)

\* str::split_once(pat): the parts before and after the first occurrence
SplitOnce(s, pat) ==
    LET i == Find(s, pat)
    IN  IF i = 0 THEN None
        ELSE Some(<<SubSeq(s, 1, i - 1), SubSeq(s, i + Len(pat), Len(s))>>)

RECURSIVE InsertHeaders(_, _, _)
\* Request::parse: for line in lines { if let Some((k, v)) =
\* line.split_once(": ") { headers.insert(k, v) } }, from line i on
InsertHeaders(map, lines, i) ==
    IF i > Len(lines) THEN map
    ELSE LET kv == SplitOnce(lines[i], <<":", " ">>)
         IN  IF kv = None THEN InsertHeaders(map, lines, i + 1)
             ELSE InsertHeaders(Insert(map, kv.value[1], kv.value[2]), lines, i + 1)

\* Request::parse
RequestParse(data) ==
    LET text == RemoveNul(data)
        lines == Split(text, CRLF)
        line == Split(lines[1], <<" ">>)
    IN  IF Len(lines) < 1 THEN Err("invalid http data")
        ELSE IF Len(line) < 1 THEN Err("missing method in request")
        ELSE IF Len(line) < 2 THEN Err("missing path in request")
        ELSE Ok([method |-> line[1],
                 path |-> line[2],
                 headers |-> InsertHeaders(EmptyMap, lines, 2),
                 body |-> lines[Len(lines)]])

\* Request::from_utf8
RequestFromUtf8(data) ==
    IF ~ValidUtf8(data)
    THEN Err("error converting request bytes to string")
    ELSE RequestParse(data)

Drained(data) == <<>>

\* what a from_utf8 call leaves in the caller's buffer: it borrows the bytes
\* (data: &[u8]) and works on a copy (data.to_vec())
Borrowed(data) == data

RECURSIVE JoinLines(_, _)
\* the lines of a buffer, with the separator between them
JoinLines(parts, sep) ==
    IF Len(parts) = 1 THEN parts[1]
    ELSE parts[1] \o sep \o JoinLines(Tail(parts), sep)

\* what a client may send: a request line, further lines and padding
RequestLines ==
    {<<"G", " ", "a">>, <<"G", " ", "a", " ", "H">>, <<"G">>, <<>>, <<"0xFF">>}

Segments ==
    {<<>>, <<"k", ":", " ", "v">>, <<"k", ":", " ", "w">>, <<"x">>, <<"NUL", "x">>}

Paddings == {<<>>, <<"NUL">>}

Buffers ==
    {JoinLines(<<rl>> \o segs, CRLF) \o pad :
        rl \in RequestLines, segs \in StringsUpTo(Segments, MaxLines), pad \in Paddings}

\* handle_connection: the bytes of one read, buf[0..n]
ReadBuffer(data) ==
    /\ buffer = None
    /\ buffer' = Some(data)
    /\ UNCHANGED decoded
    /\ UNCHANGED <<routeVars, res, output>>
    /\ UNCHANGED poolVars

\* a call of Request::from_utf8 on the buffer
Decode ==
    /\ buffer # None
    /\ Len(decoded) < 2
    /\ decoded' = Append(decoded, RequestFromUtf8(buffer.value))
    /\ buffer' = Some(Borrowed(buffer.value))
    /\ UNCHANGED <<routeVars, res, output>>
    /\ UNCHANGED poolVars

(* --------------------------- src/threads.rs --------------------------- *)

\* the locals of handle_connection: buf[0..n], req, handler, res
NoFrame == [buf |-> None, req |-> None, handler |-> NoHandler, res |-> None]

\* a connection: what its client sent (known once it is read), what was
\* written to it, and, as history, the steps handle_connection took on it
NoStream == [sent |-> None, received |-> <<>>, trace |-> <<>>]

\* Worker::new: the Worker value the pool keeps; its thread starts at the
\* top of the loop, about to lock the receiver.
WorkerNew(id) == [id |-> id, thread |-> "Some"]

SpawnedThread == [pc |-> "lock", job |-> NoJob]

NewWorkersFromOne(n) == [i \in 1..n |-> WorkerNew(i)]

\* the loop of build: for id in 0..size { workers.push(Worker::new(id, ..)) }
NewWorkers(n) == [i \in 1..n |-> WorkerNew(i - 1)]

SendToFront(q, job) == <<job>> \o q

\* mpsc::Sender::send on the unbounded channel: the message goes to the back.
Send(q, job) == Append(q, job)

\* what a thread that ends (returns or unwinds) does to the shared receiver:
\* its Arc clone is dropped, and the last one drops the Receiver, which
\* discards every message still buffered.
DropArc ==
    /\ receiver' = receiver - 1
    /\ IF receiver = 1
       THEN /\ queue' = <<>>
            /\ lost' = lost \cup {queue[i] : i \in 1..Len(queue)}
       ELSE UNCHANGED <<queue, lost>>

\* ThreadPool::build
Build(n) ==
    /\ main = "init"
    /\ size' = n
    /\ IF n = 0
       THEN /\ buildResult' = "ZeroThreadsError"
            /\ main' = "build_failed"
            /\ UNCHANGED <<workers, sender, receiver, threads, frames>>
       ELSE /\ buildResult' = "Ok"
            /\ main' = "serving"
            /\ workers' = NewWorkers(n)
            /\ threads' = [i \in 1..n |-> SpawnedThread]
            /\ frames' = [i \in 1..n |-> NoFrame]
            /\ sender' = "Some"
            /\ receiver' = n
    /\ UNCHANGED httpVars
    /\ UNCHANGED <<queue, lock, joinIdx, nsub, dequeued, runs, finished, lost,
                   streams>>

\* ThreadPool::execute: send never blocks; it fails, and the unwrap panics,
\* when the receiver is gone.
Execute ==
    /\ main = "serving"
    /\ sender = "Some"
    /\ nsub < MaxJobs
    /\ IF receiver > 0
       THEN /\ queue' = Send(queue, nsub + 1)
            /\ nsub' = nsub + 1
            /\ UNCHANGED main
       ELSE /\ main' = "panicked"
            /\ UNCHANGED <<queue, nsub>>
    /\ UNCHANGED httpVars
    /\ UNCHANGED <<size, buildResult, workers, sender, receiver, lock, threads,
                   joinIdx, dequeued, runs, finished, lost, connVars>>

\* Drop for ThreadPool, first statement: drop(self.sender.take()). The pool
\* is dropped by its owner, or by the unwinding of a panic in execute.
DropBegin ==
    /\ main \in {"serving", "panicked"}
    /\ sender' = "None"
    /\ main' = IF main = "serving" THEN "joining" ELSE "unwind_joining"
    /\ joinIdx' = 1
    /\ UNCHANGED httpVars
    /\ UNCHANGED <<size, buildResult, workers, receiver, queue, lock, threads,
                   nsub, dequeued, runs, finished, lost, connVars>>

\* Drop for ThreadPool, one turn of the loop: thread.join().unwrap() waits for
\* the thread to end and panics when it ended by a panic; a panic while
\* already unwinding aborts the process.
Join ==
    /\ main \in {"joining", "unwind_joining"}
    /\ joinIdx <= Len(workers)
    /\ threads[joinIdx].pc \in {"exited", "panicked"}
    /\ workers' = [workers EXCEPT ![joinIdx].thread = "None"]
    /\ IF threads[joinIdx].pc = "exited"
       THEN /\ joinIdx' = joinIdx + 1
            /\ main' = IF joinIdx = Len(workers)
                       THEN (IF main = "joining" THEN "dropped" ELSE "unwound")
                       ELSE main
       ELSE /\ main' = IF main = "joining" THEN "drop_panicked" ELSE "aborted"
            /\ UNCHANGED joinIdx
    /\ UNCHANGED httpVars
    /\ UNCHANGED <<size, buildResult, sender, receiver, queue, lock, threads,
                   nsub, dequeued, runs, finished, lost, connVars>>

LockWithoutWaiting(w) ==
    /\ threads[w].pc = "lock"
    /\ lock' = w
    /\ threads' = [threads EXCEPT ![w].pc = "recv"]
    /\ UNCHANGED httpVars
    /\ UNCHANGED <<main, size, buildResult, workers, sender, receiver, queue,
                   joinIdx, nsub, dequeued, runs, finished, lost, connVars>>

\* worker loop: receiver.lock()
Lock(w) ==
    /\ threads[w].pc = "lock"
    /\ lock = 0
    /\ lock' = w
    /\ threads' = [threads EXCEPT ![w].pc = "recv"]
    /\ UNCHANGED httpVars
    /\ UNCHANGED <<main, size, buildResult, workers, sender, receiver, queue,
                   joinIdx, nsub, dequeued, runs, finished, lost, connVars>>

\* mpsc::Receiver::recv takes the message at the front.
RecvFront(q) == Head(q)

\* worker loop: .recv() under the guard: blocks while the buffer is empty and
\* a sender exists; Err once the buffer is empty and the sender is dropped.
Recv(w) ==
    /\ threads[w].pc = "recv"
    /\ lock = w
    /\ IF queue # <<>>
       THEN /\ threads' = [threads EXCEPT ![w] = [pc |-> "got", job |-> RecvFront(queue)]]
            /\ queue' = Tail(queue)
            /\ dequeued' = Append(dequeued, RecvFront(queue))
       ELSE /\ sender = "None"
            /\ threads' = [threads EXCEPT ![w] = [pc |-> "got", job |-> NoJob]]
            /\ UNCHANGED <<queue, dequeued>>
    /\ UNCHANGED httpVars
    /\ UNCHANGED <<main, size, buildResult, workers, sender, receiver, lock,
                   joinIdx, nsub, runs, finished, lost, connVars>>

\* worker loop: the end of the let statement drops the MutexGuard; then the
\* match: Ok(job) => job(), Err(_) => break (the closure returns).
Unlock(w) ==
    /\ threads[w].pc = "got"
    /\ lock = w
    /\ lock' = 0
    /\ IF threads[w].job # NoJob
       THEN /\ threads' = [threads EXCEPT ![w].pc = "read"]
            /\ runs' = [runs EXCEPT ![threads[w].job] = @ + 1]
            /\ UNCHANGED <<receiver, queue, lost>>
       ELSE /\ threads' = [threads EXCEPT ![w].pc = "exited"]
            /\ DropArc
            /\ UNCHANGED runs
    /\ UNCHANGED httpVars
    /\ UNCHANGED <<main, size, buildResult, workers, sender, joinIdx, nsub,
                   dequeued, finished, connVars>>

\* A panic in the job unwinds the worker's thread: nothing catches it between
\* job() and the thread's closure, so the thread ends and drops its Arc.
JobPanics(w) ==
    /\ threads' = [threads EXCEPT ![w].pc = "panicked"]
    /\ DropArc
    /\ UNCHANGED finished

\* The job returns: the worker loops back to receiver.lock().
JobReturns(w) ==
    /\ threads' = [threads EXCEPT ![w] = [pc |-> "lock", job |-> NoJob]]
    /\ finished' = Append(finished, threads[w].job)
    /\ UNCHANGED httpVars
    /\ UNCHANGED <<receiver, queue, lost>>

\* One statement of handle_connection that either goes on or panics (an
\* unwrap of an Err, the panic! on a decode error, a panicking handler).
JobStep(w, from, to, ok) ==
    /\ threads[w].pc = from
    /\ IF ok
       THEN IF to = "return"
            THEN JobReturns(w)
            ELSE /\ threads' = [threads EXCEPT ![w].pc = to]
                 /\ UNCHANGED <<receiver, queue, lost, finished>>
       ELSE JobPanics(w)
    /\ UNCHANGED httpVars
    /\ UNCHANGED <<main, size, buildResult, workers, sender, lock, joinIdx,
                   nsub, dequeued, runs>>

\* the stream a job owns: the closure handed to execute captures the stream
\* of one accepted connection
StreamOf(w) == threads[w].job

SharedFrame(w) == 1

\* where the locals of the handle_connection that worker w runs live: on the
\* stack of w's own thread
Frame(w) == w

\* a step of handle_connection on a stream, as history
Logged(s, step) == [s EXCEPT !.trace = Append(@, step)]

\* the TcpStream is dropped, when handle_connection returns or unwinds
Dropped(s) == [sent |-> None, received |-> <<>>, trace |-> Append(s.trace, "close")]

\* the statement `step` of handle_connection went well: its locals are now f
GoesOn(w, step, f) ==
    /\ frames' = [frames EXCEPT ![Frame(w)] = f]
    /\ streams' = [streams EXCEPT ![StreamOf(w)] = Logged(@, step)]

\* handle_connection ends at the statement `step`, by its panic or by the
\* return after it: the locals and the stream are dropped
EndsAt(w, step) ==
    /\ frames' = [frames EXCEPT ![Frame(w)] = NoFrame]
    /\ streams' = [streams EXCEPT ![StreamOf(w)] = Dropped(Logged(@, step))]

\* what one read may return: no byte (the client closed), or bytes
Inputs ==
    {<<>>, <<"0xFF">>, <<"G">>, <<"G", " ", "a">>, <<"P", " ", "a">>}

\* handle_connection: stream.read(&mut buf).unwrap(); n == 0 changes nothing
Read(w, ok) ==
    /\ JobStep(w, "read", "parse", ok)
    /\ IF ok
       THEN \E data \in Inputs :
              /\ frames' = [frames EXCEPT ![Frame(w)].buf = Some(data)]
              /\ streams' = [streams EXCEPT ![StreamOf(w)] =
                                [Logged(@, "read") EXCEPT !.sent = Some(data)]]
       ELSE EndsAt(w, "read")

\* handle_connection: Request::from_utf8(&mut buf[0..n]), Err(e) => panic!
Parse(w, ok) ==
    /\ JobStep(w, "parse", "resolve", ok)
    /\ frames[Frame(w)].buf # None
    /\ LET result == RequestFromUtf8(frames[Frame(w)].buf.value)
       IN  /\ ok <=> (result.tag = "Ok")
           /\ IF ok
              THEN GoesOn(w, "parse", [frames[Frame(w)] EXCEPT !.req = Some(result.value)])
              ELSE EndsAt(w, "parse")

\* handle_connection: Route::match_route (its expect panics) and the method check
Resolve(w, ok) ==
    /\ JobStep(w, "resolve", "handle", ok)
    /\ frames[Frame(w)].req # None
    /\ LET request == frames[Frame(w)].req.value
           m == MatchRoute(routes, request.path)
       IN  /\ ok <=> (m.tag # "Panic")
           /\ IF ok
              THEN GoesOn(w, "resolve",
                          [frames[Frame(w)] EXCEPT
                              !.handler = SelectHandler(routes, m, request.method)])
              ELSE EndsAt(w, "resolve")

\* handle_connection: handler(&req); a handler of the application may panic
Handle(w, ok) ==
    /\ JobStep(w, "handle", "write", ok)
    /\ frames[Frame(w)].handler # NoHandler
    /\ ok \/ frames[Frame(w)].handler.kind = "user"
    /\ IF ok
       THEN \E r \in HandlerResults(frames[Frame(w)].handler) :
              GoesOn(w, "handle", [frames[Frame(w)] EXCEPT !.res = Some(r)])
       ELSE EndsAt(w, "handle")

\* handle_connection: format!(..) and stream.write_all(..).unwrap()
Write(w, ok) ==
    /\ JobStep(w, "write", "flush", ok)
    /\ frames[Frame(w)].res # None
    /\ IF ok
       THEN \E order \in IterOrders(frames[Frame(w)].res.value.headers) :
              /\ streams' = [streams EXCEPT ![StreamOf(w)] =
                                [Logged(@, "write") EXCEPT !.received =
                                    Append(@, FormatOutput(frames[Frame(w)].res.value, order))]]
              /\ UNCHANGED frames
       ELSE EndsAt(w, "write")

FlushThenReadAgain(w, ok) ==
    /\ JobStep(w, "flush", "read", ok)
    /\ IF ok
       THEN GoesOn(w, "flush", NoFrame)
       ELSE EndsAt(w, "flush")

\* handle_connection: stream.flush().unwrap(), then the function returns
Flush(w, ok) ==
    /\ JobStep(w, "flush", "return", ok)
    /\ EndsAt(w, "flush")

PoolInit ==
    /\ main = "init"
    /\ size = 0
    /\ buildResult = "none"
    /\ workers = <<>>
    /\ sender = "None"
    /\ receiver = 0
    /\ queue = <<>>
    /\ lock = 0
    /\ threads = <<>>
    /\ joinIdx = 0
    /\ nsub = 0
    /\ dequeued = <<>>
    /\ runs = [j \in Jobs |-> 0]
    /\ finished = <<>>
    /\ lost = {}
    /\ frames = <<>>
    /\ streams = [j \in Jobs |-> NoStream]

HttpIdle ==
    /\ routes = <<>>
    /\ serving = FALSE
    /\ req = None
    /\ verdicts = <<>>
    /\ matched = None
    /\ handler = NoHandler
    /\ res = None
    /\ output = None
    /\ buffer = None
    /\ decoded = <<>>

Init == PoolInit /\ HttpIdle

\* the statements of handle_connection, run by worker w as its job
JobRun(w) ==
    \E ok \in BOOLEAN :
        \/ Read(w, ok)
        \/ Parse(w, ok)
        \/ Resolve(w, ok)
        \/ Handle(w, ok)
        \/ Write(w, ok)
        \/ Flush(w, ok)

\* one step of the thread Worker::new spawned
WorkerStep(w) ==
    /\ w \in 1..Len(threads)
    /\ \/ Lock(w)
       \/ Recv(w)
       \/ Unlock(w)
       \/ JobRun(w)

Next ==
    \/ \E n \in 0..MaxWorkers : Build(n)
    \/ Execute
    \/ DropBegin
    \/ Join
    \/ \E w \in 1..Len(threads) : Lock(w)
    \/ \E w \in 1..Len(threads) : Recv(w)
    \/ \E w \in 1..Len(threads) : Unlock(w)
    \/ \E w \in 1..Len(threads), ok \in BOOLEAN : Read(w, ok)
    \/ \E w \in 1..Len(threads), ok \in BOOLEAN : Parse(w, ok)
    \/ \E w \in 1..Len(threads), ok \in BOOLEAN : Resolve(w, ok)
    \/ \E w \in 1..Len(threads), ok \in BOOLEAN : Handle(w, ok)
    \/ \E w \in 1..Len(threads), ok \in BOOLEAN : Write(w, ok)
    \/ \E w \in 1..Len(threads), ok \in BOOLEAN : Flush(w, ok)

Spec == Init /\ [][Next]_vars

\* The scheduler runs every thread that can take a step; the mutex hands the
\* lock to a waiting thread; every statement of a job ends (by returning or
\* by panicking).
Fairness ==
    /\ WF_vars(Join)
    /\ \A w \in 1..MaxWorkers :
          /\ SF_vars(w \in 1..Len(threads) /\ Lock(w))
          /\ WF_vars(w \in 1..Len(threads) /\ (Recv(w) \/ Unlock(w) \/ JobRun(w)))

LiveSpec == Spec /\ Fairness

\* Routing: the routes are registered, serve is called, requests are dispatched.
RouteNext ==
    \/ \E p \in Patterns, ms \in SUBSET Methods :
          HandleFunc(p, UserHandler(Len(routes) + 1), ms)
    \/ Serve
    \/ \E request \in Requests : Dispatch(request)
    \/ Close

SpecRoute == Init /\ [][RouteNext]_vars

\* The match rule alone: a router with one route, and requests dispatched to it.
MatchNext ==
    \/ \E p \in Patterns, ms \in SUBSET Methods :
          routes = <<>> /\ HandleFunc(p, UserHandler(1), ms)
    \/ Serve
    \/ \E request \in Requests : Dispatch(request)
    \/ Close

SpecMatch == Init /\ [][MatchNext]_vars

\* Responses: a handler builds one, handle_connection writes it.
EncodeNext ==
    \/ \E code \in StatusCodes, data \in Bodies : New(code, data)
    \/ \E code \in StatusCodes : Empty(code)
    \/ \E code \in StatusCodes, map \in JsonMaps : Json(code, map)
    \/ \E code \in StatusCodes, contents \in Bodies : File(code, contents)
    \/ \E key \in HeaderKeys, val \in HeaderValues : AddHeader(key, val)
    \/ WriteResponse

SpecEncode == Init /\ [][EncodeNext]_vars

\* the routes the served application registers
ServePatterns == {<<"a">>, <<"a", ":", "?">>, <<":", "?", "a">>}

ServeMethods == {<<"G">>}

\* Router::serve: the routes are registered (here at most one), serve builds
\* the pool and hands every accepted connection to execute; the pool is
\* dropped only by the unwinding of a panic in execute.
ServeNext ==
    \/ \E p \in ServePatterns :
          routes = <<>> /\ HandleFunc(p, UserHandler(1), ServeMethods)
    \/ Serve
    \/ \E n \in 1..MaxWorkers : serving /\ Build(n)
    \/ serving /\ Execute
    \/ main = "panicked" /\ DropBegin
    \/ Join
    \/ \E w \in 1..Len(threads) : Lock(w)
    \/ \E w \in 1..Len(threads) : Recv(w)
    \/ \E w \in 1..Len(threads) : Unlock(w)
    \/ \E w \in 1..Len(threads), ok \in BOOLEAN : Read(w, ok)
    \/ \E w \in 1..Len(threads), ok \in BOOLEAN : Parse(w, ok)
    \/ \E w \in 1..Len(threads), ok \in BOOLEAN : Resolve(w, ok)
    \/ \E w \in 1..Len(threads), ok \in BOOLEAN : Handle(w, ok)
    \/ \E w \in 1..Len(threads), ok \in BOOLEAN : Write(w, ok)
    \/ \E w \in 1..Len(threads), ok \in BOOLEAN : Flush(w, ok)

SpecServe == Init /\ [][ServeNext]_vars

\* Decoding: a buffer is read and Request::from_utf8 is called on it.
DecodeNext ==
    \/ \E data \in Buffers : ReadBuffer(data)
    \/ Decode

SpecDecode == Init /\ [][DecodeNext]_vars

(* ------------------------- what the claims use ------------------------ *)

Ended(w) == threads[w].pc \in {"exited", "panicked"}

LiveWorkers == {w \in 1..Len(threads) : ~Ended(w)}

Occurrences(seq, x) == Cardinality({i \in 1..Len(seq) : seq[i] = x})

InSeq(seq, x) == \E i \in 1..Len(seq) : seq[i] = x

(* --------------------------- the worker pool -------------------------- *)

\* C1: every submitted job is removed from the queue by exactly one worker
\* and is run at most once; no job is removed by two workers, and no submitted
\* job leaves the queue without being handed to a worker.
C1_EveryJobHandedToOneWorker ==
    /\ \A j \in Jobs : Occurrences(dequeued, j) <= 1 /\ runs[j] <= 1
    /\ \A j \in Jobs : Cardinality({w \in 1..Len(threads) : threads[w].job = j}) <= 1
    /\ \A j \in 1..nsub : InSeq(queue, j) \/ InSeq(dequeued, j)

\* C2: once the pool is being dropped, every job submitted before the drop
\* eventually runs to completion, every worker thread exits its loop, and the
\* drop returns after joining all the workers.
C2_ShutdownCompletes ==
    (main = "joining") ~>
        (/\ main = "dropped"
         /\ \A w \in 1..Len(threads) : threads[w].pc = "exited"
         /\ \A w \in 1..Len(workers) : workers[w].thread = "None"
         /\ \A j \in 1..nsub : InSeq(finished, j))

C4_FailingJobKeepsWorker ==
    (buildResult = "Ok" /\ main = "serving") => Cardinality(LiveWorkers) = size

\* C5: jobs leave the queue in the order they were submitted (jobs are
\* numbered in the order execute returned).
C5_DequeueInSubmissionOrder ==
    /\ \A i \in 1..Len(dequeued) : dequeued[i] = i
    /\ \A i \in 1..Len(queue) : queue[i] = Len(dequeued) + i

\* two workers, and a job submitted later completes first
C5_LaterJobCompletesFirst ==
    /\ Len(threads) >= 2
    /\ \E i, k \in 1..Len(finished) : i < k /\ finished[i] > finished[k]

\* C6: while the pool has not been shut down, execute is enabled: its send
\* succeeds, whatever the workers are doing.
C6_ExecuteNeverFails ==
    (buildResult = "Ok" /\ main = "serving") => (sender = "Some" /\ receiver > 0)

(* ------------------------------ routing ------------------------------- *)

\* the match rule as the specification words it: a pattern that ends in the
\* token matches by prefix, a pattern without the token by equality
PatternMatches(pattern, path) ==
    IF EndsWith(pattern, Wildcard)
    THEN StartsWith(path, SubSeq(pattern, 1, Len(pattern) - Len(Wildcard)))
    ELSE ~Contains(pattern, Wildcard) /\ pattern = path

MatchingRoutes == {i \in 1..Len(routes) : PatternMatches(routes[i].path, req.value.path)}

Lowest(S) == CHOOSE i \in S : \A k \in S : i <= k

\* C7: for every route list and every probe path, match_route returns the
\* route with the lowest registration index whose pattern matches the path,
\* and none when no pattern matches.
C7_FirstMatchingRoute ==
    req # None =>
        IF MatchingRoutes = {}
        THEN matched = None
        ELSE matched = Some(Lowest(MatchingRoutes))

\* C8: a pattern that ends in ":?" matches a path exactly when the part before
\* the token is a prefix of the path; a pattern without the token matches a
\* path exactly when the two are equal.
C8_MatchRule ==
    req # None =>
        \A i \in 1..Len(verdicts) :
            LET pattern == routes[i].path
                path == req.value.path
            IN  /\ EndsWith(pattern, Wildcard) =>
                     /\ verdicts[i] \in {"true", "false"}
                     /\ verdicts[i] = "true" <=>
                            StartsWith(path, SubSeq(pattern, 1, Len(pattern) - Len(Wildcard)))
                /\ ~Contains(pattern, Wildcard) =>
                     /\ verdicts[i] \in {"true", "false"}
                     /\ verdicts[i] = "true" <=> (pattern = path)

\* the route "a:?" is tried on the path "aa", longer than its prefix, and matches
C8_WildcardMatchesLongerPath ==
    /\ req # None /\ Len(routes) = 1
    /\ routes[1].path = <<"a", ":", "?">>
    /\ req.value.path = <<"a", "a">>
    /\ verdicts = <<"true">>

\* C9: for every decoded request handle_connection selects exactly one
\* handler: not-found (404) when match_route returns none, method-not-allowed
\* (405) when the returned route's methods lack the request's method, and
\* otherwise the returned route's own handler.
C9_OneHandlerSelected ==
    req # None =>
        /\ handler # NoHandler
        /\ matched.tag \in {"None", "Some"}
        /\ matched = None => (handler = NotFound /\ res.value.code = 404)
        /\ matched.tag = "Some" =>
             IF req.value.method \in routes[matched.value].methods
             THEN handler = routes[matched.value].handler
             ELSE handler = MethodNotAllowed /\ res.value.code = 405

(* ------------------------------ encoding ------------------------------ *)

WireCode(code) ==
    CASE code = 200 -> <<"2", "0", "0">>
      [] code = 404 -> <<"4", "0", "4">>

\* the status line as the specification words it
WireStatusLine(code) ==
    <<"H", "T", "T", "P", "/", "1", ".", "1", " ">> \o WireCode(code) \o <<" ">>
        \o (IF code = 200 THEN <<"O", "K">> ELSE <<" ">>) \o <<"\r", "\n">>

RECURSIVE WireHeaders(_, _)
WireHeaders(map, keys) ==
    IF keys = <<>> THEN <<>>
    ELSE Head(keys) \o <<":", " ">> \o map[Head(keys)] \o <<"\r", "\n">>
            \o WireHeaders(map, Tail(keys))

\* C10: the bytes written are the status line, one "key: value\r\n" line per
\* header, a blank "\r\n" line if and only if there is a header, the body's
\* text if there is a body, and a trailing "\r\n".
C10_WireFormat ==
    output # None =>
        LET r == res.value
        IN  \E keys \in IterOrders(r.headers) :
                output.value =
                    WireStatusLine(r.code)
                        \o WireHeaders(r.headers, keys)
                        \o (IF DOMAIN r.headers # {} THEN <<"\r", "\n">> ELSE <<>>)
                        \o (IF r.data # None THEN r.data.value ELSE <<>>)
                        \o <<"\r", "\n">>

\* a response with a body, three headers and a code other than 200 was written
C10_WroteHeadersAndBody ==
    /\ output # None
    /\ res.value.code = 404
    /\ Cardinality(DOMAIN res.value.headers) = 3
    /\ res.value.data = Some(<<"h", "i">>)

\* C11: a response constructed with a body (new, json, file) carries a
\* Content-Type header and a Content-Length header whose value is the length
\* of the body's text (Content-Type is text/plain for new); a response
\* constructed with empty carries no header; add_header and add_headers set
\* the key to the value and leave the code, the body and every other header
\* as they were.
C11_DerivedHeaders ==
    [][/\ (res = None /\ res' # None /\ res'.value.data # None) =>
             /\ ContentType \in DOMAIN res'.value.headers
             /\ ContentLength \in DOMAIN res'.value.headers
             /\ res'.value.headers[ContentLength] = Decimal(Len(res'.value.data.value))
       /\ (\E code \in StatusCodes, data \in Bodies : New(code, data)) =>
             res'.value.headers[ContentType] = <<"t", "e", "x", "t", "/", "p", "l", "a", "i", "n">>
       /\ (res = None /\ res' # None /\ res'.value.data = None) =>
             DOMAIN res'.value.headers = {}
       /\ (res # None /\ res' # None /\ res' # res) =>
             /\ res'.value.code = res.value.code
             /\ res'.value.data = res.value.data
             /\ \E key \in DOMAIN res'.value.headers :
                   /\ DOMAIN res'.value.headers = DOMAIN res.value.headers \cup {key}
                   /\ \A k \in DOMAIN res.value.headers \ {key} :
                         res'.value.headers[k] = res.value.headers[k]
      ]_vars

(* ------------------------------ decoding ------------------------------ *)

TextLines == Split(RemoveNul(buffer.value), <<"\r", "\n">>)

\* the positions of the lines between the request line and the first blank line
HeaderBlock(lines) == {i \in 2..Len(lines) : \A k \in 2..i : lines[k] # <<>>}

\* the positions of the lines of the block that have the form "key: value"
HeaderLinesIn(lines) == {i \in HeaderBlock(lines) : Contains(lines[i], <<":", " ">>)}

KeyOf(line) == SubSeq(line, 1, Find(line, <<":", " ">>) - 1)

ValueOf(line) == SubSeq(line, Find(line, <<":", " ">>) + 2, Len(line))

\* C15: the header map of a decoded request holds exactly the key/value pairs
\* of the "key: value" lines between the request line and the first blank
\* line; no line after the first blank line contributes an entry.
C15_HeadersFromHeaderBlock ==
    (decoded # <<>> /\ decoded[1].tag = "Ok") =>
        LET lines == TextLines
            headers == decoded[1].value.headers
        IN  /\ DOMAIN headers = {KeyOf(lines[i]) : i \in HeaderLinesIn(lines)}
            /\ \A k \in DOMAIN headers :
                  \E i \in HeaderLinesIn(lines) :
                      KeyOf(lines[i]) = k /\ ValueOf(lines[i]) = headers[k]

RECURSIVE StripPadding(_)
\* a buffer without its trailing null padding
StripPadding(data) ==
    IF data # <<>> /\ data[Len(data)] = "NUL"
    THEN StripPadding(SubSeq(data, 1, Len(data) - 1))
    ELSE data

\* whether the buffer has a blank line, the end of its header block
HasBlankLine(data) == Contains(data, <<"\r", "\n", "\r", "\n">>)

\* everything in the buffer after the first blank line
AfterHeaderBlock(data) ==
    SubSeq(data, Find(data, <<"\r", "\n", "\r", "\n">>) + 4, Len(data))

\* C16: the body of a decoded request is, byte for byte, what follows the
\* header block in the buffer: line separators in it are kept, and so are null
\* bytes that are not trailing padding.
C16_BodyVerbatim ==
    (decoded # <<>> /\ decoded[1].tag = "Ok" /\ HasBlankLine(buffer.value)) =>
        decoded[1].value.body = AfterHeaderBlock(StripPadding(buffer.value))

(* --------------------------- route resolution ------------------------- *)

\* C20: for every route list handle_func can build (the token ":?" at the end
\* of a pattern, elsewhere in it, or absent) and every probe path, match_route
\* ends normally: its closure answers true or false on every route it is
\* called on, and the result is a route or none.
C20_ResolutionTotal ==
    req # None =>
        /\ \A i \in 1..Len(verdicts) : verdicts[i] \in {"true", "false"}
        /\ matched = None \/ (matched.tag = "Some" /\ matched.value \in 1..Len(routes))

(* --------------------------- the connections -------------------------- *)

\* the statements of handle_connection a worker is at while it runs a job
Running == {"read", "parse", "resolve", "handle", "write", "flush"}

\* C12: when decoding the bytes read from a connection fails, the worker
\* thread is not terminated and the connection is not closed before a response
\* (of a 400-class status) has been written to it.
C12_DecodeErrorAnswered ==
    [][\A w \in 1..Len(threads) :
          (/\ threads[w].pc = "parse"
           /\ threads'[w].pc # "parse"
           /\ RequestFromUtf8(frames[w].buf.value).tag = "Err")
          => /\ threads'[w].pc # "panicked"
             /\ InSeq(streams'[threads[w].job].trace, "close") =>
                    InSeq(streams'[threads[w].job].trace, "write")
      ]_vars

\* C13: when the read returned zero bytes, the empty buffer is not handed to
\* the decoder, no handler is invoked, no response is written, and the job
\* ends by releasing the connection (the worker thread lives on).
C13_ZeroBytesAbandoned ==
    [][\A w \in 1..Len(threads) :
          (/\ threads[w].pc \in Running
           /\ frames[w].buf = Some(<<>>))
          => /\ ~InSeq(streams'[threads[w].job].trace, "parse")
             /\ ~InSeq(streams'[threads[w].job].trace, "handle")
             /\ ~InSeq(streams'[threads[w].job].trace, "write")
             /\ threads'[w].pc # "panicked"
      ]_vars

\* C17: at most one worker holds the queue lock; a worker holds it only while
\* it waits for and removes one job, never while it runs a job; a thread that
\* ended, by a panic of its job too, does not hold the lock (a lock whose
\* holder panicked is the poisoned lock).
C17_OnlyDequeueSerialized ==
    /\ lock \in 0..Len(threads)
    /\ Cardinality({w \in 1..Len(threads) : threads[w].pc \in {"recv", "got"}}) <= 1
    /\ \A w \in 1..Len(threads) : (lock = w) <=> (threads[w].pc \in {"recv", "got"})
    /\ \A w \in 1..Len(threads) :
          threads[w].pc \in Running \cup {"exited", "panicked"} => lock # w

\* two workers run two jobs at the same time, and neither holds the lock
C17_TwoJobsRunTogether ==
    /\ lock = 0
    /\ \E w1, w2 \in 1..Len(threads) :
          /\ w1 # w2
          /\ threads[w1].pc \in Running /\ threads[w2].pc \in Running
          /\ threads[w1].job # threads[w2].job

\* the steps of handle_connection in their order
Steps == <<"read", "parse", "resolve", "handle", "write", "flush">>

IsPrefix(t, full) == Len(t) <= Len(full) /\ t = SubSeq(full, 1, Len(t))

\* a trace without its closing step
BeforeClose(t) ==
    IF t # <<>> /\ t[Len(t)] = "close" THEN SubSeq(t, 1, Len(t) - 1) ELSE t

C19_OwnResponseSharedRoutes ==
    /\ [](\A j \in Jobs :
            streams[j].received # <<>> =>
                LET request == RequestFromUtf8(streams[j].sent.value)
                IN  /\ request.tag = "Ok"
                    /\ \E r \in HandlerResults(
                                  SelectHandler(routes,
                                                MatchRoute(routes, request.value.path),
                                                request.value.method)) :
                          \E order \in IterOrders(r.headers) :
                              streams[j].received = <<FormatOutput(r, order)>>)
    /\ [](\A w \in 1..Len(threads) :
            (threads[w].pc \in Running /\ frames[w].handler # NoHandler) =>
                frames[w].handler =
                    SelectHandler(routes,
                                  MatchRoute(routes, frames[w].req.value.path),
                                  frames[w].req.value.method))
    /\ [][serving => routes' = routes]_vars

\* two connections with different requests have both been answered, by two
\* workers, against a registered route
C19_TwoAnsweredTogether ==
    /\ routes # <<>>
    /\ \E j1, j2 \in Jobs :
          /\ j1 # j2
          /\ streams[j1].received # <<>> /\ streams[j2].received # <<>>
          /\ streams[j1].sent # streams[j2].sent
          /\ streams[j1].received # streams[j2].received

====
